---------------------------- MODULE Spec2Model ----------------------------
(***************************************************************************)
(* A model of synoptic/services.py: the request normaliser synoptic_api    *)
(* and its service wrappers, the wind decomposer spddir_to_uv, the         *)
(* set/value disambiguators _rename_set_1 / _rename_value_1 and the two    *)
(* table builders (stations_timeseries, _parse_latest_nearesttime).        *)
(*                                                                         *)
(* Column and row labels are modelled as sequences of one-character        *)
(* strings so that split("_"), join, the substring test and startswith     *)
(* are computed on the characters, exactly as the Python code does.        *)
(***************************************************************************)
EXTENDS Integers, Sequences, FiniteSets, TLC

VARIABLES
    form,         \* "series" (_rename_set_1 on columns) or "snapshot" (_rename_value_1 on rows)
    labels,       \* the current axis labels of the table, in order
    score,        \* per position: df.count() of the column / date_time of the row
    origLabels,   \* the labels before any renaming
    prevLabels,   \* the labels before the latest renaming
    passes,       \* how many times the disambiguator has been applied
    renamedAttr,  \* df.attrs["RENAMED"] of the latest application
    wspdArg,      \* spddir_to_uv: the argument wspd
    wdirArg,      \* spddir_to_uv: the argument wdir
    uvResult,     \* spddir_to_uv: the returned pair (u, v), "pending" before the call
    payloadForm,  \* the shape of the decoded JSON: "series" or "snapshot"
    data,         \* data["STATION"]: the station records of the response
    renameFlag,   \* rename_set_1 / rename_value_1
    nDone,        \* how many stations the builder's loop has processed
    frames,       \* the per-station tables built so far (Z, or dfs)
    senvars,      \* _parse_latest_nearesttime: the local senvars
    renamed,      \* _parse_latest_nearesttime: the local renamed
    merged,       \* the table returned to the caller
    tpc,          \* position of the builder: "loop", "done"
    fn,           \* the function the caller invoked
    service,      \* the service name handed to synoptic_api
    callParams,   \* the caller's **params, in keyword order
    verbose,      \* the verbose argument
    hideToken,    \* the hide_token argument
    apc,          \* position of the call: "called", "api", "normalized",
                  \* "responded", "returned", "failed"
    params,       \* synoptic_api: the local params
    warnings,     \* the warnings emitted so far, in order
    gets,         \* how many times requests.get was called
    response,     \* the SUMMARY and url of the response of requests.get
    printed,      \* the URL printed in the "Speedy Delivery" line
    error         \* the exception that ended the call

renameVars == <<form, labels, score, origLabels, prevLabels, passes, renamedAttr>>
windVars   == <<wspdArg, wdirArg, uvResult>>
tableVars  == <<payloadForm, data, renameFlag, nDone, frames, senvars, renamed,
                merged, tpc>>

apiVars    == <<fn, service, callParams, verbose, hideToken, apc, params,
                warnings, gets, response, printed, error>>

vars == <<renameVars, windVars, tableVars, apiVars>>

---------------------------------------------------------------------------
(* Bounds of the model. *)

\* greatest non-missing observation count / latest timestamp drawn for a label
MaxScore == 2
\* how many times in a row the disambiguator is applied to one table
MaxPasses == 2
\* greatest length of a list or array handed to spddir_to_uv
MaxLen == 2
\* greatest number of observation slots in one response, all stations together
MaxSlots == 3
\* greatest number of stations in one response
MaxStations == 2
\* number of timestamps of an observation series
NRows == 2
\* latest observation time of a snapshot slot
MaxTime == 2
\* greatest number of keyword arguments of one call
MaxParams == 3

---------------------------------------------------------------------------
(* Strings as character sequences. *)

Range(s) == {s[i] : i \in 1..Len(s)}

\* str.split("_")
RECURSIVE Split(_)
Split(s) ==
    IF \A i \in 1..Len(s) : s[i] # "_"
    THEN <<s>>
    ELSE LET k == CHOOSE i \in 1..Len(s) :
                      s[i] = "_" /\ \A j \in 1..(i-1) : s[j] # "_"
         IN  <<SubSeq(s, 1, k-1)>> \o Split(SubSeq(s, k+1, Len(s)))

\* "_".join(tokens)
RECURSIVE Join(_)
Join(tokens) ==
    IF Len(tokens) = 0 THEN <<>>
    ELSE IF Len(tokens) = 1 THEN tokens[1]
    ELSE tokens[1] \o <<"_">> \o Join(Tail(tokens))

\* sub in s
Contains(s, sub) ==
    \E i \in 1..(Len(s) - Len(sub) + 1) : SubSeq(s, i, i + Len(sub) - 1) = sub

\* s.startswith(p)
StartsWith(s, p) == Len(p) <= Len(s) /\ SubSeq(s, 1, Len(p)) = p

\* code point order of the characters that occur in labels
Alphabet ==
    <<"0","1","2","3","4","5","6","7","8","9",
      "A","B","C","D","E","F","G","H","I","J","K","L","M",
      "N","O","P","Q","R","S","T","U","V","W","X","Y","Z",
      "_",
      "a","b","c","d","e","f","g","h","i","j","k","l","m",
      "n","o","p","q","r","s","t","u","v","w","x","y","z">>

OrdOf == [c \in Range(Alphabet) |-> CHOOSE i \in 1..Len(Alphabet) : Alphabet[i] = c]

Ord(c) == OrdOf[c]

\* a[k..] <= b[k..] in Python's string order, a and b agreeing before k
RECURSIVE StrLeqFrom(_, _, _)
StrLeqFrom(a, b, k) ==
    IF k > Len(a) THEN TRUE
    ELSE IF k > Len(b) THEN FALSE
    ELSE IF a[k] = b[k] THEN StrLeqFrom(a, b, k + 1)
    ELSE Ord(a[k]) < Ord(b[k])

\* a <= b in Python's string order
StrLeq(a, b) == StrLeqFrom(a, b, 1)

\* df.columns.sort_values() / sort_index(): the labels of S in ascending order
RECURSIVE SortLabels(_)
SortLabels(S) ==
    IF S = {} THEN <<>>
    ELSE LET m == CHOOSE x \in S : \A y \in S : StrLeq(x, y)
         IN  <<m>> \o SortLabels(S \ {m})

---------------------------------------------------------------------------
(* Labels of the API. *)

AIR_TEMP  == <<"a","i","r","_","t","e","m","p">>
WIND_SPEED == <<"w","i","n","d","_","s","p","e","e","d">>
WIND_DIRECTION == <<"w","i","n","d","_","d","i","r","e","c","t","i","o","n">>
STID == <<"S","T","I","D">>
SENSOR_VARIABLES == <<"S","E","N","S","O","R","_","V","A","R","I","A","B","L","E","S">>
WIND_U    == <<"w","i","n","d","_","u">>
WIND_V    == <<"w","i","n","d","_","v">>
ELEVATION == <<"E","L","E","V","A","T","I","O","N">>

KIND_SET   == <<"s","e","t">>
KIND_VALUE == <<"v","a","l","u","e">>

N1  == <<"1">>
N1D == <<"1","d">>
N2  == <<"2">>
N10 == <<"1","0">>

\* <base>_set_<n> or <base>_value_<n>
Lab(base, kind, n) == base \o <<"_">> \o kind \o <<"_">> \o n

\* the kind of suffix of a table form
KindOf(f) == IF f = "series" THEN KIND_SET ELSE KIND_VALUE


---------------------------------------------------------------------------
(* spddir_to_uv.  A float is Num(x) or NaN, and a list may also hold None. *)
(* An argument is [kind, items]: kind "scalar" (one item), "list" (a       *)
(* Python list) or "array" (a numpy array).  Speeds are whole numbers and  *)
(* directions whole degrees; sines, cosines and products are held in       *)
(* millionths and the rounded results in thousandths.                      *)

Num(x) == [t |-> "num", v |-> x]
NaN    == [t |-> "nan", v |-> 0]
None   == [t |-> "none", v |-> 0]

\* the wind speeds and directions (degrees) a payload or a caller may give
Speeds     == {Num(0), Num(3)}
Directions == {Num(0), Num(45), Num(90), Num(180), Num(270)}

Scalar(x) == [kind |-> "scalar", items |-> <<x>>]

\* np.sin(rad * wdir) and np.cos(rad * wdir), in millionths
SinMicro(d) ==
    IF d.t # "num" THEN NaN
    ELSE CASE d.v = 0   -> Num(0)
           [] d.v = 45  -> Num(707107)
           [] d.v = 90  -> Num(1000000)
           [] d.v = 180 -> Num(0)
           [] d.v = 270 -> Num(-1000000)

CosMicro(d) ==
    IF d.t # "num" THEN NaN
    ELSE CASE d.v = 0   -> Num(1000000)
           [] d.v = 45  -> Num(707107)
           [] d.v = 90  -> Num(0)
           [] d.v = 180 -> Num(-1000000)
           [] d.v = 270 -> Num(0)

\* -wspd * x in float arithmetic: NaN if either operand is NaN (also 0 * NaN)
NegMul(wspd, x) ==
    IF wspd.t # "num" \/ x.t # "num" THEN NaN ELSE Num(-(wspd.v * x.v))

\* np.round(x, 3) of a value held in millionths: the nearest thousandth
Round3(x) ==
    IF x.t # "num" THEN NaN
    ELSE IF x.v >= 0 THEN Num((x.v + 500) \div 1000)
    ELSE Num(-((-x.v + 500) \div 1000))

\* np.array(x, dtype=float): None becomes NaN
ToArray(x) ==
    [kind |-> "array",
     items |-> [i \in 1..Len(x.items) |->
                   IF x.items[i] = None THEN NaN ELSE x.items[i]]]

\* u[np.where(wspd == 0)] = 0 on an array
ZeroFixArray(u, wspd) ==
    [i \in 1..Len(u) |-> IF wspd.items[i] = Num(0) THEN Num(0) ELSE u[i]]

\* a scalar left as the product gave it
ZeroFixScalarNone(u, wspd) == u

\* elif wspd == 0: u = float(0) on a scalar
ZeroFixScalar(u, wspd) ==
    [i \in 1..Len(u) |-> IF wspd.items[1] = Num(0) THEN Num(0) ELSE u[i]]

\* spddir_to_uv(wspd, wdir): [kind, u, v], u and v sequences of floats in
\* thousandths (of length one for a pair of scalars)
SpdDirToUV(wspd, wdir) ==
    LET islist == wspd.kind = "list" \/ wdir.kind = "list"
        spd == IF islist THEN ToArray(wspd) ELSE wspd
        dir == IF islist THEN ToArray(wdir) ELSE wdir
        n   == Len(spd.items)
        u0  == [i \in 1..n |-> NegMul(spd.items[i], SinMicro(dir.items[i]))]
        v0  == [i \in 1..n |-> NegMul(spd.items[i], CosMicro(dir.items[i]))]
        \* hasattr(u, "__len__")
        haslen == spd.kind = "array"
        u   == IF haslen THEN ZeroFixArray(u0, spd) ELSE ZeroFixScalar(u0, spd)
        v   == IF haslen THEN ZeroFixArray(v0, spd) ELSE ZeroFixScalar(v0, spd)
    IN  [kind |-> spd.kind,
         u |-> [i \in 1..n |-> Round3(u[i])],
         v |-> [i \in 1..n |-> Round3(v[i])]]

\* the element values of a list (None allowed) and of an array or scalar
ListSpeeds  == Speeds \cup {NaN, None}
ListDirs    == Directions \cup {NaN, None}
FloatSpeeds == Speeds \cup {NaN}
FloatDirs   == Directions \cup {NaN}

\* the variables of spddir_to_uv while another component is examined
WindIdle ==
    /\ wspdArg = Scalar(NaN)
    /\ wdirArg = Scalar(NaN)
    /\ uvResult = [kind |-> "unused", u |-> <<>>, v |-> <<>>]

InitWindArgs ==
    /\ \/ /\ wspdArg \in {Scalar(x) : x \in FloatSpeeds}
          /\ wdirArg \in {Scalar(x) : x \in FloatDirs}
       \/ \E n \in 1..MaxLen :
            \/ /\ wspdArg \in [kind : {"list"}, items : [1..n -> ListSpeeds]]
               /\ wdirArg \in [kind : {"list"}, items : [1..n -> ListDirs]]
            \/ /\ wspdArg \in [kind : {"array"}, items : [1..n -> FloatSpeeds]]
               /\ wdirArg \in [kind : {"array"}, items : [1..n -> FloatDirs]]
    /\ uvResult = [kind |-> "pending", u |-> <<>>, v |-> <<>>]

\* u, v = spddir_to_uv(wspd, wdir)
Decompose ==
    /\ uvResult.kind = "pending"
    /\ uvResult' = SpdDirToUV(wspdArg, wdirArg)
    /\ UNCHANGED <<wspdArg, wdirArg>>

---------------------------------------------------------------------------
(* _rename_set_1 and _rename_value_1: the same algorithm, on the columns   *)
(* with "_set_1" and df.count(), on the rows with "_value_1" and           *)
(* df.date_time.                                                           *)

\* a tag that matches every set number
TagAnySet == <<"_","s","e","t","_">>

\* the literal "_set_1" of _rename_set_1
TAG_SET_1 == <<"_","s","e","t","_","1">>

\* the literal "_value_1" of _rename_value_1
TAG_VALUE_1 == <<"_","v","a","l","u","e","_","1">>

TagOf(f) == IF f = "series" THEN TAG_SET_1 ELSE TAG_VALUE_1

\* "_".join(v.split("_")[:-2]) if tag in v else v
StripName(v, tag) ==
    IF Contains(v, tag)
    THEN LET t == Split(v)
         IN  Join(SubSeq(t, 1, Len(t) - 2))
    ELSE v

\* var_idx = np.where([v.startswith(name + tag) for v in rows])[0]
VarIdx(name, rows, tag) == {j \in 1..Len(rows) : StartsWith(rows[j], name \o tag)}

\* var_idx[np.argmax([sc[i] for i in var_idx])]: the first position of the maximum
ArgMax(idx, sc) ==
    CHOOSE j \in idx :
        /\ \A k \in idx : sc[k] <= sc[j]
        /\ \A k \in idx : (sc[k] = sc[j]) => j <= k

\* var_names = [StripName(v) for v in rows]
VarNames(rows, tag) == [k \in 1..Len(rows) |-> StripName(rows[k], tag)]

\* no group is taken as listed once
ListedOnceNever(var_idx) == FALSE

\* every group is taken as listed once
ListedOnceAlways(var_idx) == Cardinality(var_idx) >= 1

\* if len(var_idx) == 1
ListedOnce(var_idx) == Cardinality(var_idx) = 1

\* the value the loop body assigns to renames[rows[i]]
RenameTarget(i, rows, var_names, sc, tag) ==
    LET var_idx   == VarIdx(var_names[i], rows, tag)
    IN  IF ListedOnce(var_idx)
        THEN var_names[CHOOSE j \in var_idx : TRUE]
        ELSE IF Cardinality(var_idx) > 1
        THEN LET max_idx == ArgMax(var_idx, sc)
             IN  IF max_idx = i THEN var_names[max_idx] ELSE rows[i]
        ELSE rows[i]

\* the dict renames after the loop: a later position with the same label
\* overwrites an earlier one
Renames(rows, sc, tag) ==
    LET var_names == VarNames(rows, tag)
        target    == [i \in 1..Len(rows) |-> RenameTarget(i, rows, var_names, sc, tag)]
    IN  [l \in Range(rows) |->
            target[CHOOSE i \in 1..Len(rows) :
                       rows[i] = l /\ \A k \in 1..Len(rows) : rows[k] = l => k <= i]]

\* df.rename(columns=renames) / df.rename(index=renames)
ApplyRenames(rows, renames) == [i \in 1..Len(rows) |-> renames[rows[i]]]


---------------------------------------------------------------------------
(* The decoded JSON the table builders read.  A station record holds its   *)
(* STID, ELEVATION, the SENSOR_VARIABLES catalog (per variable family the  *)
(* ordered keys of its dict) and OBSERVATIONS: in series form one list of  *)
(* values per label, in snapshot form one {date_time, value} per label.    *)

Families == {AIR_TEMP, WIND_SPEED, WIND_DIRECTION}

SlotLabels(f) ==
    {Lab(AIR_TEMP, KindOf(f), n) :
        n \in IF f = "snapshot" THEN {N1, N1D, N10} ELSE {N1, N1D}}
    \cup {Lab(WIND_SPEED, KindOf(f), n) : n \in {N1, N2}}
    \cup {Lab(WIND_DIRECTION, KindOf(f), n) : n \in {N1, N2}}

FamilyOf(l) == CHOOSE b \in Families : StartsWith(l, b \o <<"_">>)

\* the values a slot may hold in series form (or None) ...
SlotValues(l) ==
    IF FamilyOf(l) = AIR_TEMP THEN {Num(5)}
    ELSE IF FamilyOf(l) = WIND_SPEED THEN {Num(3)}
    ELSE {Num(90)}

\* ... and in snapshot form
SnapshotValues(l) ==
    IF FamilyOf(l) = AIR_TEMP THEN {Num(5)}
    ELSE IF FamilyOf(l) = WIND_SPEED THEN {Num(3)}
    ELSE {Num(0), Num(90)}

\* the observation times a snapshot slot may carry
SnapshotTimes(l) ==
    IF FamilyOf(l) = AIR_TEMP THEN {Num(t) : t \in 1..MaxTime} ELSE {Num(1)}

\* the orders in which a dict may list the keys S
Orders(S) ==
    {o \in [1..Cardinality(S) -> S] : \A i, j \in 1..Cardinality(S) : o[i] = o[j] => i = j}

CatalogsOf(S) ==
    LET fams == {FamilyOf(l) : l \in S}
    IN  {c \in [fams -> UNION {Orders(T) : T \in SUBSET S}] :
            \A b \in fams : c[b] \in Orders({l \in S : FamilyOf(l) = b})}

ObservationsOf(f, S) ==
    IF f = "snapshot"
    THEN {o \in [S -> [date_time : UNION {SnapshotTimes(l) : l \in S},
                       value : UNION {SnapshotValues(l) : l \in S}]] :
             \A l \in S : /\ o[l].value \in SnapshotValues(l)
                          /\ o[l].date_time \in SnapshotTimes(l)}
    ELSE {o \in [S -> [1..NRows -> UNION {SlotValues(l) : l \in S} \cup {None}]] :
             \A l \in S : \A r \in 1..NRows : o[l][r] \in SlotValues(l) \cup {None}}

\* the labels a catalog lists
CatalogLabels(c) == UNION {Range(c[b]) : b \in DOMAIN c}

\* the wind labels of a form: a catalog may list one of them for which the
\* station reports no observation
WindSlots(f) == {l \in SlotLabels(f) : FamilyOf(l) \in {WIND_SPEED, WIND_DIRECTION}}

Unreported(f, S) == {{}} \cup {{l} : l \in WindSlots(f) \ S}

\* the stations whose catalog lists at most n labels
StationBodies(f, n) ==
    UNION {UNION {{[OBSERVATIONS |-> o, SENSOR_VARIABLES |-> c] :
                      o \in ObservationsOf(f, S), c \in CatalogsOf(S \cup X)} :
                  X \in {Y \in Unreported(f, S) : Cardinality(S \cup Y) <= n}} :
           S \in {T \in SUBSET SlotLabels(f) : Cardinality(T) <= n}}

StationIds == <<"KSLC", "WBB", "KMRY", "UKBKB">>

\* data["STATION"] of k more stations that hold at most n slots together
RECURSIVE StationLists(_, _, _)
StationLists(f, k, n) ==
    IF k = 0 THEN {<<>>}
    ELSE UNION {{<<b>> \o rest :
                    rest \in StationLists(f, k - 1,
                                           n - Cardinality(CatalogLabels(b.SENSOR_VARIABLES)))} :
                b \in StationBodies(f, n)}

Payloads(f) ==
    UNION {{[k \in 1..n |-> [STID |-> StationIds[k], ELEVATION |-> 4226,
                             OBSERVATIONS |-> b[k].OBSERVATIONS,
                             SENSOR_VARIABLES |-> b[k].SENSOR_VARIABLES]] :
               b \in StationLists(f, n, MaxSlots)} : n \in 1..MaxStations}

\* {**b, **a}: the entries of the first dict win
MergeDictFirst(a, b) ==
    [k \in DOMAIN a \cup DOMAIN b |-> IF k \in DOMAIN a THEN a[k] ELSE b[k]]

\* {**a, **b}
MergeDict(a, b) ==
    [k \in DOMAIN a \cup DOMAIN b |-> IF k \in DOMAIN b THEN b[k] ELSE a[k]]

\* this_set = "_".join(i_spd.split("_")[-2:])
ThisSet(i_spd) ==
    LET t == Split(i_spd) IN Join(SubSeq(t, Len(t) - 1, Len(t)))

WindLabel(base, this_set) == base \o <<"_">> \o this_set

\* zip(senvars["wind_speed"].keys(), senvars["wind_direction"].keys())
ZipKeys(cat) ==
    LET spd == cat[WIND_SPEED]
        dir == cat[WIND_DIRECTION]
        n   == IF Len(spd) <= Len(dir) THEN Len(spd) ELSE Len(dir)
    IN  [i \in 1..n |-> <<spd[i], dir[i]>>]

\* the speed/direction pairs the builders decompose: none unless the
\* catalog holds both wind families
WindPairs(cat) ==
    IF WIND_SPEED \in DOMAIN cat /\ WIND_DIRECTION \in DOMAIN cat
    THEN ZipKeys(cat) ELSE <<>>

---------------------------------------------------------------------------
(* _parse_latest_nearesttime: the body of the loop over data["STATION"].   *)

\* the columns of df before the transpose: the observation slots, the other
\* station fields as [None, v], and the wind vectors
SnapshotCells(stn) ==
    LET obs   == stn.OBSERVATIONS
        pairs == WindPairs(stn.SENSOR_VARIABLES)
        uv(i) == SpdDirToUV(Scalar(obs[pairs[i][1]].value), Scalar(obs[pairs[i][2]].value))
        wind  == [l \in {WindLabel(b, ThisSet(pairs[i][1])) :
                            b \in {WIND_U, WIND_V}, i \in 1..Len(pairs)} |->
                    LET i == CHOOSE k \in 1..Len(pairs) :
                                 l \in {WindLabel(WIND_U, ThisSet(pairs[k][1])),
                                        WindLabel(WIND_V, ThisSet(pairs[k][1]))}
                    IN  [date_time |-> obs[pairs[i][1]].date_time,
                         value |-> IF StartsWith(l, WIND_U \o <<"_">>)
                                   THEN uv(i).u[1] ELSE uv(i).v[1]]]
        meta  == (STID :> [date_time |-> None, value |-> [t |-> "str", v |-> stn.STID]])
                 @@ (ELEVATION :> [date_time |-> None, value |-> Num(stn.ELEVATION)])
                 @@ (SENSOR_VARIABLES :> [date_time |-> None, value |-> [t |-> "dict", v |-> 0]])
    IN  MergeDict(MergeDict(obs, meta), wind)

\* df.date_time.iloc[i] as a number (a row without a timestamp never competes)
TimeScore(cell) == IF cell.date_time.t = "num" THEN cell.date_time.v ELSE 0

\* the frame appended to dfs for one station
SnapshotFrame(stn, rename_value_1) ==
    LET cells   == SnapshotCells(stn)
        sorted  == SortLabels(DOMAIN cells)
        sc      == [i \in 1..Len(sorted) |-> TimeScore(cells[sorted[i]])]
        renames == IF rename_value_1 THEN Renames(sorted, sc, TAG_VALUE_1)
                   ELSE [l \in {} |-> l]
    IN  [stid    |-> stn.STID,
         orig    |-> sorted,
         rows    |-> IF rename_value_1 THEN ApplyRenames(sorted, renames) ELSE sorted,
         cells   |-> [i \in 1..Len(sorted) |-> cells[sorted[i]]],
         RENAMED |-> renames]

HasDuplicates(seq) == \E i, j \in 1..Len(seq) : i # j /\ seq[i] = seq[j]

Missing == [date_time |-> NaN, value |-> NaN]

\* pd.concat(dfs, axis=1): an outer join of the frames on their row labels;
\* pandas refuses to align frames when one of them repeats a row label
ConcatFrames(dfs) ==
    LET same == \A i \in 1..Len(dfs) : dfs[i].rows = dfs[1].rows
    IN  IF ~same /\ \E i \in 1..Len(dfs) : HasDuplicates(dfs[i].rows)
        THEN [kind |-> "InvalidIndexError", rows |-> <<>>, cols |-> <<>>]
        ELSE LET rows == IF same THEN dfs[1].rows
                         ELSE SortLabels(UNION {Range(dfs[i].rows) : i \in 1..Len(dfs)})
             IN  [kind |-> "table",
                  rows |-> rows,
                  cols |-> [sid \in {dfs[i].stid : i \in 1..Len(dfs)} |->
                              LET f == dfs[CHOOSE i \in 1..Len(dfs) : dfs[i].stid = sid]
                              IN  [r \in 1..Len(rows) |->
                                     IF same THEN f.cells[r]
                                     ELSE IF \E i \in 1..Len(f.rows) : f.rows[i] = rows[r]
                                     THEN f.cells[CHOOSE i \in 1..Len(f.rows) : f.rows[i] = rows[r]]
                                     ELSE Missing]]]


---------------------------------------------------------------------------
(* stations_timeseries: the body of the loop over data["STATION"].         *)

AsList(items) == [kind |-> "list", items |-> items]

\* df.count(): the number of non-missing values of a column
RECURSIVE CountNonMissing(_)
CountNonMissing(col) ==
    IF Len(col) = 0 THEN 0
    ELSE (IF col[1].t = "num" THEN 1 ELSE 0) + CountNonMissing(Tail(col))

\* the wind columns in the order they are appended: u and v of each pair
RECURSIVE SeriesWind(_, _)
SeriesWind(obs, pairs) ==
    IF Len(pairs) = 0 THEN <<>>
    ELSE LET uv == SpdDirToUV(AsList(obs[pairs[1][1]]), AsList(obs[pairs[1][2]]))
             this_set == ThisSet(pairs[1][1])
         IN  << [label |-> WindLabel(WIND_U, this_set), col |-> uv.u],
                [label |-> WindLabel(WIND_V, this_set), col |-> uv.v] >>
             \o SeriesWind(obs, Tail(pairs))

\* the rows df.dropna(how="all") keeps, in order
RECURSIVE KeptRows(_, _)
KeptRows(columns, r) ==
    IF r > NRows THEN <<>>
    ELSE (IF \E c \in 1..Len(columns) : columns[c][r].t = "num" THEN <<r>> ELSE <<>>)
         \o KeptRows(columns, r + 1)

\* the table appended to Z for one station
SeriesFrame(stn, rename_set_1) ==
    LET obs     == stn.OBSERVATIONS
        sorted  == SortLabels(DOMAIN obs)
        wind    == SeriesWind(obs, WindPairs(stn.SENSOR_VARIABLES))
        cols0   == sorted \o [i \in 1..Len(wind) |-> wind[i].label]
        columns == [i \in 1..Len(sorted) |-> ToArray(AsList(obs[sorted[i]])).items]
                   \o [i \in 1..Len(wind) |-> wind[i].col]
        counts  == [i \in 1..Len(cols0) |-> CountNonMissing(columns[i])]
        renames == IF rename_set_1 THEN Renames(cols0, counts, TAG_SET_1)
                   ELSE [l \in {} |-> l]
        cols    == IF rename_set_1 THEN ApplyRenames(cols0, renames) ELSE cols0
    IN  [stid    |-> stn.STID,
         orig    |-> cols0,
         rows    |-> cols,
         cells   |-> columns,
         index   |-> KeptRows(columns, 1),
         RENAMED |-> renames,
         warned  |-> HasDuplicates(cols)]

---------------------------------------------------------------------------
(* The two table builders run on a decoded response. *)

TablesIdle ==
    /\ payloadForm = "none"
    /\ data = <<>>
    /\ renameFlag = FALSE
    /\ nDone = 0
    /\ frames = <<>>
    /\ senvars = <<>>
    /\ renamed = <<>>
    /\ merged = [kind |-> "none"]
    /\ tpc = "idle"

InitTables ==
    /\ payloadForm \in {"series", "snapshot"}
    /\ data \in Payloads(payloadForm)
    /\ renameFlag \in BOOLEAN
    /\ nDone = 0
    /\ frames = <<>>
    /\ senvars = <<>>
    /\ renamed = <<>>
    /\ merged = [kind |-> "none"]
    /\ tpc = "loop"

\* obs[i_spd] or obs[i_dir] of a label OBSERVATIONS does not hold: KeyError
WindKeyError(stn) ==
    \E i \in 1..Len(WindPairs(stn.SENSOR_VARIABLES)) :
        \E j \in 1..2 :
            WindPairs(stn.SENSOR_VARIABLES)[i][j] \notin DOMAIN stn.OBSERVATIONS

\* stations_timeseries: for stn in data["STATION"]: ... Z.append(df)
TimeseriesStation ==
    /\ payloadForm = "series" /\ tpc = "loop" /\ nDone < Len(data)
    /\ IF WindKeyError(data[nDone + 1])
       THEN /\ tpc' = "failed"
            /\ merged' = [kind |-> "KeyError"]
            /\ UNCHANGED <<frames, nDone>>
       ELSE /\ frames' = Append(frames, SeriesFrame(data[nDone + 1], renameFlag))
            /\ nDone' = nDone + 1
            /\ UNCHANGED <<merged, tpc>>
    /\ UNCHANGED <<payloadForm, data, renameFlag, senvars, renamed>>
    /\ UNCHANGED <<renameVars, windVars, apiVars>>

\* stations_timeseries: return Z[0] if len(Z) == 1 else Z
TimeseriesReturn ==
    /\ payloadForm = "series" /\ tpc = "loop" /\ nDone = Len(data)
    /\ merged' = IF Len(frames) = 1
                 THEN [kind |-> "table", tables |-> frames]
                 ELSE [kind |-> "list", tables |-> frames]
    /\ tpc' = "done"
    /\ UNCHANGED <<payloadForm, data, renameFlag, nDone, frames, senvars, renamed>>
    /\ UNCHANGED <<renameVars, windVars, apiVars>>

\* _parse_latest_nearesttime: for i in data["STATION"]: ... dfs.append(df)
ParseStation ==
    /\ payloadForm = "snapshot" /\ tpc = "loop" /\ nDone < Len(data)
    /\ LET stn == data[nDone + 1]
           df  == SnapshotFrame(stn, renameFlag)
           \* line 307 replaces the dict collected so far
           senvars307 == stn.SENSOR_VARIABLES
       IN  IF WindKeyError(stn)
           THEN /\ tpc' = "failed"
                /\ merged' = [kind |-> "KeyError"]
                /\ UNCHANGED <<frames, renamed, senvars, nDone>>
           ELSE /\ frames' = Append(frames, df)
                /\ renamed' = IF renameFlag THEN MergeDict(renamed, df.RENAMED) ELSE renamed
                /\ senvars' = MergeDict(senvars307, stn.SENSOR_VARIABLES)
                /\ nDone' = nDone + 1
                /\ UNCHANGED <<merged, tpc>>
    /\ UNCHANGED <<payloadForm, data, renameFlag>>
    /\ UNCHANGED <<renameVars, windVars, apiVars>>

\* _parse_latest_nearesttime: df = pd.concat(dfs, axis=1) and its attrs
ParseConcat ==
    /\ payloadForm = "snapshot" /\ tpc = "loop" /\ nDone = Len(data)
    /\ LET df == ConcatFrames(frames)
       IN  /\ merged' = [kind |-> df.kind, rows |-> df.rows, cols |-> df.cols,
                         RENAMED |-> renamed, SENSOR_VARIABLES |-> senvars]
           /\ tpc' = IF df.kind = "table" THEN "done" ELSE "failed"
    /\ UNCHANGED <<payloadForm, data, renameFlag, nDone, frames, senvars, renamed>>
    /\ UNCHANGED <<renameVars, windVars, apiVars>>

NextTables ==
    \/ TimeseriesStation
    \/ TimeseriesReturn
    \/ ParseStation
    \/ ParseConcat


---------------------------------------------------------------------------
(* synoptic_api and the service functions.  A parameter value is [t, v]:   *)
(* t its Python type and v its text as characters (for a datetime its      *)
(* YYYYMMDDhhmm digits, for an int or a timedelta its minutes, for a list  *)
(* the sequence of its items, each a value [t, v]).  A dict is a sequence  *)
(* of [k, val] in insertion order.                                         *)

Str(cs) == [t |-> "str", v |-> cs]

K_TOKEN   == <<"t","o","k","e","n">>
K_TOKEN_C == <<"T","o","k","e","n">>
K_STID    == <<"s","t","i","d">>
K_START   == <<"s","t","a","r","t">>
K_END     == <<"e","n","d">>
K_EXPIRE  == <<"e","x","p","i","r","e">>
K_ATTIME  == <<"a","t","t","i","m","e">>
K_RECENT  == <<"r","e","c","e","n","t">>
K_WITHIN  == <<"w","i","t","h","i","n">>
K_OBRANGE == <<"o","b","r","a","n","g","e">>

\* _service and _stations
Stations == {"metadata", "timeseries", "precipitation", "nearesttime", "latest"}
Services == {"auth", "networks", "networktypes", "variables", "qctypes"} \cup Stations

\* _stn_selector
StnSelector ==
    {<<"s","t","i","d">>,
     <<"c","o","u","n","t","r","y">>,
     <<"s","t","a","t","e">>,
     <<"s","t","a","t","u","s">>,
     <<"n","w","s","z","o","n","e">>,
     <<"n","w","s","f","i","r","e","z","o","n","e">>,
     <<"c","w","a">>,
     <<"g","a","c","c">>,
     <<"s","u","b","g","a","c","c">>,
     <<"v","a","r","s">>,
     <<"v","a","r","s","o","p","e","r","a","t","o","r">>,
     <<"n","e","t","w","o","r","k">>,
     <<"r","a","d","i","u","s">>,
     <<"l","i","m","i","t">>,
     <<"b","b","o","x">>,
     <<"f","i","e","l","d","s">>}

\* config["default"].get("token")
DefaultToken == Str(<<"c","o","n","f","t","o","k","e","n">>)

Digits == {"0","1","2","3","4","5","6","7","8","9"}

\* str.lower() of a character, and of a key
LowerChar(c) ==
    IF c \in Range(Alphabet) /\ Ord(c) >= Ord("A") /\ Ord(c) <= Ord("Z")
    THEN Alphabet[Ord(c) + (Ord("a") - Ord("A"))]
    ELSE c

Lower(k) == [i \in 1..Len(k) |-> LowerChar(k[i])]

HasKey(d, k) == \E i \in 1..Len(d) : d[i].k = k

Get(d, k) == d[CHOOSE i \in 1..Len(d) : d[i].k = k].val

\* d[k] = val: in place when the key exists, appended otherwise
Put(d, k, val) ==
    IF HasKey(d, k)
    THEN [i \in 1..Len(d) |-> IF d[i].k = k THEN [k |-> k, val |-> val] ELSE d[i]]
    ELSE Append(d, [k |-> k, val |-> val])

\* d.setdefault(k, val)
SetDefault(d, k, val) == IF HasKey(d, k) THEN d ELSE Put(d, k, val)

\* {k.lower(): v for k, v in d.items()}
RECURSIVE LowerKeysInto(_, _)
LowerKeysInto(acc, d) ==
    IF Len(d) = 0 THEN acc
    ELSE LowerKeysInto(Put(acc, Lower(d[1].k), d[1].val), Tail(d))

LowerKeys(d) == LowerKeysInto(<<>>, d)

\* ",".join(items)
RECURSIVE JoinComma(_)
JoinComma(items) ==
    IF Len(items) = 0 THEN <<>>
    ELSE IF Len(items) = 1 THEN items[1]
    ELSE items[1] \o <<",">> \o JoinComma(Tail(items))

\* str(i) of an element of a list: the text of a str or an int, and
\* "YYYY-MM-DD hh:mm:00" of a datetime
StrOf(x) ==
    IF x.t = "datetime"
    THEN SubSeq(x.v, 1, 4) \o <<"-">> \o SubSeq(x.v, 5, 6) \o <<"-">> \o SubSeq(x.v, 7, 8)
         \o <<" ">> \o SubSeq(x.v, 9, 10) \o <<":">> \o SubSeq(x.v, 11, 12)
         \o <<":","0","0">>
    ELSE x.v

\* the exemption of step 2, and no exemption at all
NoExemption == {}
JoinExempt == {K_OBRANGE}

\* step 2: every list except obrange becomes a comma separated string
JoinLists(d) ==
    [i \in 1..Len(d) |->
        IF d[i].val.t = "list" /\ d[i].k \notin JoinExempt
        THEN [k |-> d[i].k,
              val |-> Str(JoinComma([j \in 1..Len(d[i].val.v) |-> StrOf(d[i].val.v[j])]))]
        ELSE d[i]]

IsNumeric(cs) == Len(cs) > 0 /\ \A i \in 1..Len(cs) : cs[i] \in Digits

\* date = f"{date[:8]} {date[8:]}" for a numeric string of 8 or more digits
SpaceAfterDate(val) ==
    IF val.t = "str" /\ Len(val.v) >= 8 /\ IsNumeric(val.v)
    THEN Str(SubSeq(val.v, 1, 8) \o <<" ">> \o SubSeq(val.v, 9, Len(val.v)))
    ELSE val

\* pd.to_datetime(date): a datetime object as it is; the text
\* "YYYYMMDD", "YYYYMMDD HH" or "YYYYMMDD HHMM"; anything else of the
\* values drawn here is not a date and raises
ParseDatetime(date) ==
    IF date.t = "datetime" THEN [ok |-> TRUE, val |-> date]
    ELSE IF /\ date.t = "str"
            /\ Len(date.v) \in {9, 11, 13}
            /\ IsNumeric(SubSeq(date.v, 1, 8))
            /\ date.v[9] = " "
            /\ (Len(date.v) > 9 => IsNumeric(SubSeq(date.v, 10, Len(date.v))))
    THEN [ok |-> TRUE,
          val |-> [t |-> "datetime",
                   v |-> SubSeq(date.v, 1, 8) \o SubSeq(date.v, 10, Len(date.v))
                         \o [i \in 1..(13 - Len(date.v)) |-> "0"]]]
    ELSE [ok |-> FALSE, val |-> date]

\* f"{x:%Y%m%d}" in the place of f"{x:%Y%m%d%H%M}"
FormatInstantDay(x) ==
    IF x.t = "datetime" THEN [ok |-> TRUE, val |-> Str(SubSeq(x.v, 1, 8))]
    ELSE [ok |-> FALSE, val |-> x]

\* f"{x:%Y%m%d%H%M}": a datetime formats to its twelve digits; str.__format__
\* rejects the format specifier with a ValueError
FormatInstant(x) ==
    IF x.t = "datetime" THEN [ok |-> TRUE, val |-> Str(x.v)]
    ELSE [ok |-> FALSE, val |-> x]

\* pd.to_timedelta(dt): minutes of an int (through timedelta(minutes=dt)) or
\* of a timedelta object, the texts "1h" and "1D"; other text raises
ParseTimedelta(dt) ==
    IF dt.t \in {"int", "timedelta"} THEN [ok |-> TRUE, val |-> [t |-> "timedelta", v |-> dt.v]]
    ELSE IF dt = Str(<<"1","h">>) THEN [ok |-> TRUE, val |-> [t |-> "timedelta", v |-> <<"6","0">>]]
    ELSE IF dt = Str(<<"1","D">>) THEN [ok |-> TRUE, val |-> [t |-> "timedelta", v |-> <<"1","4","4","0">>]]
    ELSE [ok |-> FALSE, val |-> dt]

\* np.ceil(x / timedelta(minutes=1)).astype(int): a str cannot be divided by
\* a timedelta (TypeError)
ToMinutes(x) ==
    IF x.t = "timedelta" THEN [ok |-> TRUE, val |-> [t |-> "int", v |-> x.v]]
    ELSE [ok |-> FALSE, val |-> x]

\* the state of the normalisation: the dict, the warnings, and the exception
\* that stopped it ("none" while it runs)
NormState(d, w, e) == [params |-> d, warnings |-> w, raised |-> e]

\* step 3 for one key of ["start", "end", "expire", "attime"]
InstantStep(st, key) ==
    IF st.raised # "none" \/ ~HasKey(st.params, key) THEN st
    ELSE LET date   == SpaceAfterDate(Get(st.params, key))
             parsed == ParseDatetime(date)
             d1     == IF parsed.ok THEN Put(st.params, key, parsed.val) ELSE st.params
             w1     == IF parsed.ok THEN st.warnings
                       ELSE Append(st.warnings, [what |-> "datetime", k |-> key])
             fmt    == FormatInstant(Get(d1, key))
         IN  IF fmt.ok THEN NormState(Put(d1, key, fmt.val), w1, "none")
             ELSE NormState(d1, w1, "ValueError")

\* f"{i:%Y%m%d}" of one instant of obrange
FormatDay(x) ==
    IF x.t = "datetime" THEN [ok |-> TRUE, val |-> SubSeq(x.v, 1, 8)]
    ELSE [ok |-> FALSE, val |-> x.v]

\* step 4: obrange, unless it is a string already
ObrangeStep(st) ==
    IF st.raised # "none" \/ ~HasKey(st.params, K_OBRANGE)
       \/ Get(st.params, K_OBRANGE).t = "str"
    THEN st
    ELSE LET x     == Get(st.params, K_OBRANGE)
             items == IF x.t = "list" THEN x.v ELSE <<x>>
             days  == [i \in 1..Len(items) |-> FormatDay(items[i])]
         IN  IF \A i \in 1..Len(items) : days[i].ok
             THEN NormState(Put(st.params, K_OBRANGE,
                                Str(JoinComma([i \in 1..Len(items) |-> days[i].val]))),
                            st.warnings, "none")
             ELSE NormState(st.params, st.warnings, "ValueError")

\* step 5 for one key of ["recent", "within"]
DurationStep(st, key) ==
    IF st.raised # "none" \/ ~HasKey(st.params, key) THEN st
    ELSE LET parsed == ParseTimedelta(Get(st.params, key))
             d1     == IF parsed.ok THEN Put(st.params, key, parsed.val) ELSE st.params
             w1     == IF parsed.ok THEN st.warnings
                       ELSE Append(st.warnings, [what |-> "timedelta", k |-> key])
             mins   == ToMinutes(Get(d1, key))
         IN  IF mins.ok THEN NormState(Put(d1, key, mins.val), w1, "none")
             ELSE NormState(d1, w1, "TypeError")

\* params.setdefault("token", ...) and {k.lower(): v ...}, in the order of
\* the code
TokenThenLower(kwargs) == LowerKeys(SetDefault(kwargs, K_TOKEN, DefaultToken))

\* synoptic_api from its first line to the line before requests.get
Normalize(svc, kwargs) ==
    IF svc \notin Services THEN NormState(kwargs, <<>>, "AssertionError")
    ELSE LET s0 == NormState(JoinLists(TokenThenLower(kwargs)), <<>>, "none")
             s1 == InstantStep(InstantStep(InstantStep(InstantStep(s0,
                       K_START), K_END), K_EXPIRE), K_ATTIME)
             s2 == ObrangeStep(s1)
         IN  DurationStep(DurationStep(s2, K_RECENT), K_WITHIN)

\* the service functions and the service each one requests
Wrappers ==
    [stations_metadata |-> "metadata", stations_timeseries |-> "timeseries",
     stations_nearesttime |-> "nearesttime", stations_latest |-> "latest",
     stations_precipitation |-> "precipitation", networks |-> "networks",
     networktypes |-> "networktypes", variables |-> "variables",
     qctypes |-> "qctypes"]

\* all(i in _stn_selector for i in params)
AllStnSelector(kwargs) == \A i \in 1..Len(kwargs) : kwargs[i].k \in StnSelector

\* any(i in _stn_selector for i in params)
AnyStnSelector(kwargs) == \E i \in 1..Len(kwargs) : kwargs[i].k \in StnSelector

\* check1 or check2
TimeWindow(kwargs) ==
    \/ HasKey(kwargs, K_START) /\ HasKey(kwargs, K_END)
    \/ HasKey(kwargs, K_RECENT)

\* the assertions a service function makes before it calls synoptic_api
Asserts(f, kwargs) ==
    CASE f = "stations_metadata"      -> AnyStnSelector(kwargs)
      [] f = "stations_timeseries"    -> TimeWindow(kwargs) /\ AnyStnSelector(kwargs)
      [] f = "stations_nearesttime"   -> HasKey(kwargs, K_ATTIME) /\ AnyStnSelector(kwargs)
      [] f = "stations_latest"        -> AnyStnSelector(kwargs)
      [] f = "stations_precipitation" -> TimeWindow(kwargs) /\ AnyStnSelector(kwargs)
      [] OTHER                        -> TRUE

\* params.setdefault("within", 60) of stations_nearesttime and stations_latest
WithinDefault(f, kwargs) ==
    IF f \in {"stations_nearesttime", "stations_latest"}
    THEN SetDefault(kwargs, K_WITHIN, [t |-> "int", v |-> <<"6","0">>])
    ELSE kwargs

NoUrl == [service |-> "none", query |-> <<>>]
NoError == [type |-> "none", stage |-> "none", msg |-> "none", url |-> NoUrl]
NoResponse == [code |-> 0, msg |-> "none", url |-> NoUrl]

\* SUMMARY.RESPONSE_CODE and RESPONSE_MESSAGE of the answers of the service
Summaries ==
    {[code |-> 1, msg |-> "OK"],
     [code |-> 2, msg |-> "No stations found for this request."],
     [code |-> 200, msg |-> "Invalid token."]}

\* the request URL: the service and the query string, every value as text
UrlOf(svc, d) ==
    [service |-> svc,
     query   |-> [i \in 1..Len(d) |-> [k |-> d[i].k, val |-> d[i].val.v]]]

HIDDEN == <<"H","I","D","D","E","N">>

\* decode_url.replace(decode_url[token_idx : token_idx + 6 + 32],
\* "token=HIDDEN"), a token being 32 characters
HideToken(url) ==
    [url EXCEPT !.query =
        [i \in 1..Len(url.query) |->
            IF url.query[i].k = K_TOKEN
            THEN [k |-> K_TOKEN, val |-> HIDDEN] ELSE url.query[i]]]

\* the keyword arguments a caller may give, one choice per name
Absent == <<>>
Arg(key, val) == <<[k |-> key, val |-> val]>>
WireInstant == <<"2","0","2","0","0","1","0","1","0","0","0","0">>
LaterInstant == <<"2","0","2","0","0","1","0","2","1","2","3","0">>
DayRange == <<"2","0","2","0","0","1","0","1",",","2","0","2","0","0","1","0","2">>
Garbage == <<"s","o","o","n">>
Moment(digits) == [t |-> "datetime", v |-> digits]

ArgChoices ==
    << {Absent, Arg(K_STID, Str(<<"K","S","L","C">>)),
                Arg(K_STID, [t |-> "list", v |-> <<Str(<<"K","S","L","C">>), Str(<<"K","M","R","Y">>)>>])},
       {Absent, Arg(K_TOKEN, Str(<<"m","i","n","e">>)), Arg(K_TOKEN_C, Str(<<"m","i","n","e">>))},
       {Absent, Arg(K_START, Str(WireInstant)), Arg(K_START, Str(Garbage)),
                Arg(K_START, Str(LaterInstant)), Arg(K_START, Str(SubSeq(LaterInstant, 1, 10))),
                Arg(K_START, Str(SubSeq(LaterInstant, 1, 8)))},
       {Absent, Arg(K_END, Str(WireInstant))},
       {Absent, Arg(K_RECENT, [t |-> "int", v |-> <<"3","0">>]),
                Arg(K_RECENT, Str(Garbage))},
       {Absent, Arg(K_ATTIME, Moment(WireInstant)), Arg(K_ATTIME, Moment(LaterInstant)),
                Arg(K_ATTIME, Str(Garbage))},
       {Absent, Arg(K_OBRANGE, Moment(LaterInstant)),
                Arg(K_OBRANGE, [t |-> "list", v |-> <<Moment(WireInstant), Moment(LaterInstant)>>]),
                Arg(K_OBRANGE, Str(DayRange))} >>

\* the keyword dicts of at most MaxParams entries, one choice per name
RECURSIVE KwargsFrom(_)
KwargsFrom(choices) ==
    IF Len(choices) = 0 THEN {<<>>}
    ELSE {h \o t : h \in Head(choices),
                   t \in {r \in KwargsFrom(Tail(choices)) : Len(r) <= MaxParams}}

Kwargs == {kw \in KwargsFrom(ArgChoices) : Len(kw) <= MaxParams}

DirectServices == {"metadata", "auth", "station"}

ApiIdle ==
    /\ fn = "none" /\ service = "none" /\ callParams = <<>>
    /\ verbose = FALSE /\ hideToken = FALSE /\ apc = "idle"
    /\ params = <<>> /\ warnings = <<>> /\ gets = 0
    /\ response = NoResponse /\ printed = NoUrl /\ error = NoError

\* a caller invokes one service function, or synoptic_api itself
InitApi ==
    /\ fn \in DOMAIN Wrappers \cup {"synoptic_api"}
    /\ service \in IF fn = "synoptic_api" THEN DirectServices ELSE {Wrappers[fn]}
    /\ callParams \in Kwargs
    /\ verbose \in BOOLEAN
    /\ hideToken \in BOOLEAN
    /\ apc = IF fn = "synoptic_api" THEN "api" ELSE "called"
    /\ params = callParams
    /\ warnings = <<>> /\ gets = 0
    /\ response = NoResponse /\ printed = NoUrl /\ error = NoError

\* a service function up to its call of synoptic_api
ServiceFunction ==
    /\ apc = "called"
    /\ IF Asserts(fn, callParams)
       THEN /\ params' = WithinDefault(fn, callParams)
            /\ apc' = "api"
            /\ error' = error
       ELSE /\ apc' = "failed"
            /\ error' = [NoError EXCEPT !.type = "AssertionError", !.stage = "precondition"]
            /\ params' = params
    /\ UNCHANGED <<fn, service, callParams, verbose, hideToken, warnings, gets,
                   response, printed>>
    /\ UNCHANGED <<renameVars, windVars, tableVars>>

\* synoptic_api up to requests.get
ApiPrepare ==
    /\ apc = "api"
    /\ LET st == Normalize(service, params)
       IN  /\ warnings' = st.warnings
           /\ IF st.raised = "none"
              THEN /\ params' = st.params
                   /\ apc' = "normalized"
                   /\ error' = error
              ELSE /\ params' = params
                   /\ apc' = "failed"
                   /\ error' = [NoError EXCEPT !.type = st.raised,
                                  !.stage = IF st.raised = "AssertionError"
                                            THEN "service" ELSE "normalize"]
    /\ UNCHANGED <<fn, service, callParams, verbose, hideToken, gets, response, printed>>
    /\ UNCHANGED <<renameVars, windVars, tableVars>>

\* f = requests.get(URL, params)
HttpGet ==
    /\ apc = "normalized"
    /\ gets' = gets + 1
    /\ \E sm \in Summaries :
          response' = [code |-> sm.code, msg |-> sm.msg, url |-> UrlOf(service, params)]
    /\ apc' = "responded"
    /\ UNCHANGED <<fn, service, callParams, verbose, hideToken, params, warnings,
                   printed, error>>
    /\ UNCHANGED <<renameVars, windVars, tableVars>>

\* a rejected request sent once more
ApiCheckRetry ==
    /\ apc = "responded"
    /\ apc' = IF service # "auth" /\ response.code # 1 THEN "normalized" ELSE "returned"
    /\ UNCHANGED <<printed, error>>
    /\ UNCHANGED <<fn, service, callParams, verbose, hideToken, params, warnings,
                   gets, response>>
    /\ UNCHANGED <<renameVars, windVars, tableVars>>

\* synoptic_api after requests.get
ApiCheck ==
    /\ apc = "responded"
    /\ IF service = "auth"
       THEN apc' = "returned" /\ UNCHANGED <<printed, error>>
       ELSE IF response.code # 1
       THEN /\ apc' = "failed"
            /\ error' = [type |-> "AssertionError", stage |-> "remote",
                         msg |-> response.msg, url |-> response.url]
            /\ printed' = printed
       ELSE /\ apc' = "returned"
            /\ printed' = IF ~verbose THEN NoUrl
                          ELSE IF hideToken THEN HideToken(response.url)
                          ELSE response.url
            /\ error' = error
    /\ UNCHANGED <<fn, service, callParams, verbose, hideToken, params, warnings,
                   gets, response>>
    /\ UNCHANGED <<renameVars, windVars, tableVars>>

NextApi ==
    \/ ServiceFunction
    \/ ApiPrepare
    \/ HttpGet
    \/ ApiCheck

---------------------------------------------------------------------------
(* The disambiguator applied to the label axis a table builder hands it.   *)

\* the labels a table may hold for one variable family: the observation
\* labels a station may report, and the bare name of the family
FamilyLabels(f) == {Lab(AIR_TEMP, KindOf(f), n) : n \in {N1, N1D, N2, N10}} \cup {AIR_TEMP}

\* the wind-vector columns stations_timeseries appends after sorting, one
\* u/v pair per set of the wind_speed catalog, in catalog order
WindSetOrders == {<<>>, <<N1>>, <<N1D>>, <<N1, N1D>>, <<N1D, N1>>}

RECURSIVE WindColumns(_)
WindColumns(sets) ==
    IF Len(sets) = 0 THEN <<>>
    ELSE <<Lab(WIND_U, KIND_SET, sets[1]), Lab(WIND_V, KIND_SET, sets[1])>>
         \o WindColumns(Tail(sets))

\* the u and v column of one set hold the same number of observations
WindScores(ws) == [i \in 1..(2 * Len(ws)) |-> ws[(i + 1) \div 2]]

\* the variables of the disambiguator while another component is examined
RenameIdle ==
    /\ form = "none"
    /\ labels = <<>>
    /\ score = <<>>
    /\ origLabels = <<>>
    /\ prevLabels = <<>>
    /\ passes = 0
    /\ renamedAttr = <<>>

InitRename ==
    /\ form \in {"series", "snapshot"}
    /\ \E S \in SUBSET FamilyLabels(form) :
       \E meta \in BOOLEAN :
       \E sets \in WindSetOrders :
         LET sorted == SortLabels(S \cup (IF form = "snapshot" /\ meta
                                          THEN {ELEVATION} ELSE {}))
             wind   == IF form = "series" THEN WindColumns(sets) ELSE <<>>
         IN  /\ (form = "series") => ~meta
             /\ (form = "snapshot") => sets = <<>>
             /\ labels = sorted \o wind
             /\ \E sc \in [1..Len(sorted) -> 0..MaxScore] :
                \E ws \in [1..Len(sets) -> 0..MaxScore] :
                    score = sc \o (IF form = "series" THEN WindScores(ws) ELSE <<>>)
    /\ origLabels = labels
    /\ prevLabels = labels
    /\ passes = 0
    /\ renamedAttr = <<>>
    /\ WindIdle
    /\ TablesIdle
    /\ ApiIdle

\* df = _rename_set_1(df) / df = _rename_value_1(df)
Rename ==
    /\ passes < MaxPasses
    /\ LET renames == Renames(labels, score, TagOf(form))
       IN  /\ labels' = ApplyRenames(labels, renames)
           /\ renamedAttr' = renames
    /\ prevLabels' = labels
    /\ passes' = passes + 1
    /\ UNCHANGED <<form, score, origLabels>>
    /\ UNCHANGED <<windVars, tableVars, apiVars>>

NextRename == Rename

SpecRename == InitRename /\ [][NextRename]_vars

---------------------------------------------------------------------------
(* spddir_to_uv called on one pair of arguments. *)

InitWind == InitWindArgs /\ RenameIdle /\ TablesIdle /\ ApiIdle

NextWind == Decompose /\ UNCHANGED <<renameVars, tableVars, apiVars>>

SpecWind == InitWind /\ [][NextWind]_vars

---------------------------------------------------------------------------
(* The table builders run on one decoded response. *)

Init == InitTables /\ RenameIdle /\ WindIdle /\ ApiIdle

Next == NextTables

Spec == Init /\ [][Next]_vars

---------------------------------------------------------------------------
(* _parse_latest_nearesttime run on one decoded snapshot response. *)

InitParse == payloadForm = "snapshot" /\ Init

NextParse ==
    \/ ParseStation
    \/ ParseConcat

SpecParse == InitParse /\ [][NextParse]_vars

---------------------------------------------------------------------------
(* The calls of the service functions and of synoptic_api.                 *)

InitCall == InitApi /\ RenameIdle /\ WindIdle /\ TablesIdle

NextCall == NextApi

SpecApi == InitCall /\ [][NextCall]_vars

---------------------------------------------------------------------------
(* Properties of the disambiguator (SpecRename).                          *)

\* the position of label l among the labels before renaming
PosOf(l) == CHOOSE i \in 1..Len(origLabels) : origLabels[i] = l

Present(l) == \E i \in 1..Len(origLabels) : origLabels[i] = l

\* the variable families whose labels occur in a table of SpecRename
Bases == {AIR_TEMP, WIND_U, WIND_V}

\* C1: in a group holding both <base>_<kind>_1 and <base>_<kind>_1d the member
\* with the strictly greater score gets the bare base name and the other one
\* keeps its suffixed label; on equal scores the plain _1 label gets the base
\* name.
C1_GreatestScoreGetsBaseName ==
    passes = 1 =>
        \A b \in Bases :
            LET one == Lab(b, KindOf(form), N1)
                der == Lab(b, KindOf(form), N1D)
            IN  (Present(one) /\ Present(der)) =>
                    LET i == PosOf(one)
                        j == PosOf(der)
                    IN  IF score[j] > score[i]
                        THEN labels[j] = b /\ labels[i] = one
                        ELSE labels[i] = b /\ labels[j] = der

\* a label whose set/value number starts with the digit 1 (_1, _1d, _10, ...):
\* the labels _rename_set_1 / _rename_value_1 still act on
LeadingOne(l) ==
    \/ Contains(l, <<"_","s","e","t","_","1">>)
    \/ Contains(l, <<"_","v","a","l","u","e","_","1">>)

\* C2: a second application of the disambiguator renames nothing,
\* whatever labels the first application left in place.
C2_SecondPassRenamesNothing ==
    passes >= 2 => labels = prevLabels

\* C2, for a finished table: a second application renames nothing when the first one left
\* no label in place whose set/value number starts with 1.
C2_SecondPassNoOpWithoutSuffix ==
    (passes >= 2 /\ \A i \in 1..Len(prevLabels) : ~LeadingOne(prevLabels[i]))
        => labels = prevLabels

\* C2 witness: two applications, the first of which renamed a label and left
\* no competing suffix behind.
C2_Witness ==
    /\ passes = 2
    /\ prevLabels # origLabels
    /\ \A i \in 1..Len(prevLabels) : ~LeadingOne(prevLabels[i])

\* the labels of set/value number 2, 10, ...: not _1 and not _1d
OtherNumbered(l) ==
    \E b \in Bases : \E n \in {N2, N10} : l = Lab(b, KindOf(form), n)

\* the positions of seq that hold a label satisfying Keep, in order
RECURSIVE KeptPositions(_, _)
KeptPositions(seq, from) ==
    IF from > Len(seq) THEN <<>>
    ELSE (IF OtherNumbered(seq[from]) THEN <<>> ELSE <<from>>)
         \o KeptPositions(seq, from + 1)

\* C3: a label of any other set/value number is mapped to itself, and the
\* other labels are renamed as they are in the table without those labels.
C3_OtherNumbersNeverCompete ==
    passes = 1 =>
        /\ \A i \in 1..Len(origLabels) :
               OtherNumbered(origLabels[i]) => labels[i] = origLabels[i]
        /\ LET kept   == KeptPositions(origLabels, 1)
               rows   == [k \in 1..Len(kept) |-> origLabels[kept[k]]]
               sc     == [k \in 1..Len(kept) |-> score[kept[k]]]
               alone  == ApplyRenames(rows, Renames(rows, sc, TagOf(form)))
           IN  \A k \in 1..Len(kept) : labels[kept[k]] = alone[k]

\* the base name of a label: the label without its trailing _set_<n> or
\* _value_<n>, a label without such a suffix being its own base name
BaseNameOf(l) ==
    LET t == Split(l)
    IN  IF Len(t) >= 3 /\ t[Len(t) - 1] \in {KIND_SET, KIND_VALUE}
        THEN Join(SubSeq(t, 1, Len(t) - 2)) ELSE l

Suffixed(l) == BaseNameOf(l) # l

\* C18: the rename map has an entry for every input label; no two distinct
\* input labels resolve to the same name; and of the _1 / _1d labels of a
\* base name exactly one label of the table resolves to the bare base name.
C18_RenameMapInjective ==
    passes = 1 =>
        /\ DOMAIN renamedAttr = Range(origLabels)
        /\ \A i, j \in 1..Len(labels) : labels[i] = labels[j] => i = j
        /\ \A b \in Bases :
              (\E n \in {N1, N1D} : Present(Lab(b, KindOf(form), n)))
                  => Cardinality({i \in 1..Len(labels) : labels[i] = b}) = 1

\* C18, with the bare name in the table: the rename map has an entry for
\* every input label; at most one suffixed label of a base name resolves to
\* the bare base name; and two distinct input labels resolve to the same name
\* only when one of them is that bare name itself, unsuffixed in the input.
C18_InjectiveButForBareName ==
    passes = 1 =>
        /\ DOMAIN renamedAttr = Range(origLabels)
        /\ \A i \in 1..Len(labels) : renamedAttr[origLabels[i]] = labels[i]
        /\ \A i, j \in 1..Len(labels) :
              (i # j /\ labels[i] = labels[j]) =>
                  /\ ~(Suffixed(origLabels[i]) /\ Suffixed(origLabels[j]))
                  /\ labels[i] \in {origLabels[i], origLabels[j]}
        /\ \A b \in Bases :
              Cardinality({i \in 1..Len(labels) :
                              labels[i] = b /\ Suffixed(origLabels[i])}) <= 1

\* C18 witness: the bare name and its _1 label were both in the table and
\* both resolve to the bare name
C18_Witness ==
    /\ passes = 1
    /\ Present(AIR_TEMP)
    /\ Present(Lab(AIR_TEMP, KindOf(form), N1))
    /\ labels[PosOf(Lab(AIR_TEMP, KindOf(form), N1))] = AIR_TEMP
    /\ labels[PosOf(AIR_TEMP)] = AIR_TEMP

---------------------------------------------------------------------------
(* Properties of spddir_to_uv (SpecWind).                                 *)

---------------------------------------------------------------------------
(* Properties of the table builders (Spec).                               *)

\* the station's column of the merged snapshot table holds cell at row label
AppearsAt(stn, label, cell) ==
    \E r \in 1..Len(merged.rows) :
        merged.rows[r] = label /\ merged.cols[stn.STID][r] = cell

\* C4: in the merged snapshot table each station's promotion is its own: of a
\* station's X_value_1 and X_value_1d the slot observed later is at row X and
\* the other at its suffixed row; a station with only one of the two slots
\* has that slot at row X.
C4_PromotionPerStation ==
    (payloadForm = "snapshot" /\ renameFlag /\ tpc = "done") =>
        \A k \in 1..Len(data) : \A b \in Families :
            LET obs == data[k].OBSERVATIONS
                one == Lab(b, KIND_VALUE, N1)
                der == Lab(b, KIND_VALUE, N1D)
            IN  /\ (one \in DOMAIN obs /\ der \in DOMAIN obs
                       /\ obs[one].date_time.v < obs[der].date_time.v)
                     => AppearsAt(data[k], b, obs[der]) /\ AppearsAt(data[k], one, obs[one])
                /\ (one \in DOMAIN obs /\ der \in DOMAIN obs
                       /\ obs[one].date_time.v > obs[der].date_time.v)
                     => AppearsAt(data[k], b, obs[one]) /\ AppearsAt(data[k], der, obs[der])
                /\ (one \in DOMAIN obs /\ der \notin DOMAIN obs)
                     => AppearsAt(data[k], b, obs[one])
                /\ (one \notin DOMAIN obs /\ der \in DOMAIN obs)
                     => AppearsAt(data[k], b, obs[der])

\* the wind component the speed and the direction of set n of a station give
ExpectedWind(stn, base, n) ==
    LET obs == stn.OBSERVATIONS
        spd == obs[Lab(WIND_SPEED, KindOf(payloadForm), n)]
        dir == obs[Lab(WIND_DIRECTION, KindOf(payloadForm), n)]
    IN  IF payloadForm = "series"
        THEN LET uv == SpdDirToUV(AsList(spd), AsList(dir))
             IN  IF base = WIND_U THEN uv.u ELSE uv.v
        ELSE LET uv == SpdDirToUV(Scalar(spd.value), Scalar(dir.value))
             IN  [date_time |-> spd.date_time,
                  value |-> IF base = WIND_U THEN uv.u[1] ELSE uv.v[1]]

\* C5: every wind_u_<s> / wind_v_<s> a builder emits is the decomposition of
\* the station's speed and direction labels of that same set <s>.
C5_WindPairedBySet ==
    \A k \in 1..Len(frames) : \A i \in 1..Len(frames[k].orig) :
        \A base \in {WIND_U, WIND_V} : \A n \in {N1, N2} :
            frames[k].orig[i] = Lab(base, KindOf(payloadForm), n) =>
                /\ Lab(WIND_SPEED, KindOf(payloadForm), n) \in DOMAIN data[k].OBSERVATIONS
                /\ Lab(WIND_DIRECTION, KindOf(payloadForm), n) \in DOMAIN data[k].OBSERVATIONS
                /\ frames[k].cells[i] = ExpectedWind(data[k], base, n)

\* the u or v of the speed and the direction of one timestamp
WindAt(base, spd, dir) ==
    LET uv == SpdDirToUV(AsList(<<spd>>), AsList(<<dir>>))
    IN  IF base = WIND_U THEN uv.u[1] ELSE uv.v[1]

HasSetOne(stn) ==
    LET cat == stn.SENSOR_VARIABLES
    IN  /\ WIND_SPEED \in DOMAIN cat /\ WIND_DIRECTION \in DOMAIN cat
        /\ Lab(WIND_SPEED, KIND_SET, N1) \in Range(cat[WIND_SPEED])
        /\ Lab(WIND_DIRECTION, KIND_SET, N1) \in Range(cat[WIND_DIRECTION])
        /\ Lab(WIND_SPEED, KIND_SET, N1) \in DOMAIN stn.OBSERVATIONS
        /\ Lab(WIND_DIRECTION, KIND_SET, N1) \in DOMAIN stn.OBSERVATIONS

\* C13: the table of a series station whose catalog has wind_speed_set_1 and
\* wind_direction_set_1 has a column wind_u_set_1 (or wind_u, with renaming)
\* and a column wind_v_set_1 (or wind_v) that hold at every timestamp the
\* component of the speed and direction of set 1 at that timestamp, missing
\* where both are missing.
C13_Set1WindRowByRow ==
    payloadForm = "series" =>
        \A k \in 1..Len(frames) :
            HasSetOne(data[k]) =>
                \A base \in {WIND_U, WIND_V} :
                    \E i \in 1..Len(frames[k].rows) :
                        /\ frames[k].rows[i] \in
                               {Lab(base, KIND_SET, N1)} \cup (IF renameFlag THEN {base} ELSE {})
                        /\ \A r \in 1..NRows :
                               LET spd == data[k].OBSERVATIONS[Lab(WIND_SPEED, KIND_SET, N1)][r]
                                   dir == data[k].OBSERVATIONS[Lab(WIND_DIRECTION, KIND_SET, N1)][r]
                               IN  /\ frames[k].cells[i][r] = WindAt(base, spd, dir)
                                   /\ (spd = None /\ dir = None) => frames[k].cells[i][r] = NaN

\* C14: the SENSOR_VARIABLES attached to the merged snapshot table holds every
\* variable family of the catalog of every station of the response.
C14_CatalogOfAllStations ==
    (payloadForm = "snapshot" /\ tpc = "done") =>
        \A k \in 1..Len(data) :
            \A b \in DOMAIN data[k].SENSOR_VARIABLES :
                b \in DOMAIN merged.SENSOR_VARIABLES

\* a table builder has ended, with a table or with an exception
Ended == tpc \in {"done", "failed"}

\* the stations that have a table in what the builder returned
Tabled ==
    IF tpc # "done" THEN {}
    ELSE IF payloadForm = "series"
    THEN {merged.tables[i].stid : i \in 1..Len(merged.tables)}
    ELSE DOMAIN merged.cols

\* C17: a builder that has ended has returned a table for every station of
\* the response, whatever the shape of the data: duplicate names after the
\* renaming, one wind family without the other, unequal numbers of speed and
\* direction sets, a catalog entry without an observation.
C17_PartialShapesReturnTables ==
    Ended => /\ tpc = "done"
             /\ \A k \in 1..Len(data) : data[k].STID \in Tabled

---------------------------------------------------------------------------
(* Properties of the calls (SpecApi).                                      *)

InstantKeys == {K_START, K_END, K_EXPIRE, K_ATTIME}
DurationKeys == {K_RECENT, K_WITHIN}

\* the caller gave, for an instant or a duration, text that cannot be parsed
Malformed(arg) ==
    \/ Lower(arg.k) \in InstantKeys /\ arg.val.t = "str"
       /\ ~ParseDatetime(SpaceAfterDate(arg.val)).ok
    \/ Lower(arg.k) \in DurationKeys /\ arg.val.t = "str"
       /\ ~ParseTimedelta(arg.val).ok

HasMalformed == \E i \in 1..Len(callParams) : Malformed(callParams[i])

Entered == apc \in {"normalized", "responded", "returned"} \/ error.stage \in {"normalize", "remote"}

\* C6: a call that reached the parameter normalisation of synoptic_api with
\* a malformed instant or duration never fails there: once the normalisation
\* is over a warning has been emitted, every malformed value is still in the
\* parameters as the caller gave it, and the call goes on to the GET.
C6_MalformedValueIsNotFatal ==
    (HasMalformed /\ Entered) =>
        /\ error.stage # "normalize"
        /\ Len(warnings) > 0
        /\ \A i \in 1..Len(callParams) :
              Malformed(callParams[i]) =>
                  Get(params, Lower(callParams[i].k)) = callParams[i].val

\* the required names of each function, as the documentation lists them
GivenNames == {Lower(callParams[i].k) : i \in 1..Len(callParams)}

MissingRequired ==
    \/ fn \in {"stations_timeseries"}
       /\ ~({K_START, K_END} \subseteq GivenNames) /\ K_RECENT \notin GivenNames
    \/ fn = "stations_nearesttime" /\ K_ATTIME \notin GivenNames
    \/ fn \in {"stations_metadata", "stations_latest", "stations_precipitation"}
       /\ GivenNames \cap StnSelector = {}
    \/ fn = "synoptic_api" /\ service \notin Services

\* C7: a call that lacks a required parameter name (or names an unknown
\* service) never issues the HTTP GET: it never gets past the assertions, and
\* when it has ended it has ended as a failure raised before the request.
C7_MissingNameFailsBeforeGet ==
    MissingRequired =>
        /\ gets = 0
        /\ apc \in {"called", "api", "failed"}
        /\ (apc = "api" => fn = "synoptic_api")
        /\ (apc = "failed" => error.stage \in {"precondition", "service"})

C7_Witness ==
    /\ MissingRequired
    /\ apc = "failed"
    /\ fn = "stations_timeseries"
    /\ HasKey(callParams, K_STID)
    /\ gets = 0

TokenShown(url) ==
    \E i \in 1..Len(url.query) : url.query[i].k = K_TOKEN /\ url.query[i].val # HIDDEN

\* C8: when the summary of the response has a code other than 1 the call
\* ends as a failure whose error carries the message of the service and the
\* URL of the request, and with hide_token the token is not in that URL.
C8_RejectionHidesToken ==
    (service # "auth" /\ response.code \notin {0, 1} /\ apc # "responded") =>
        /\ apc = "failed"
        /\ error.msg = response.msg
        /\ error.url.service = service
        /\ (hideToken => ~TokenShown(error.url))

CallerTokens == {callParams[i].val : i \in {j \in 1..Len(callParams) : Lower(callParams[j].k) = K_TOKEN}}

\* C9: once synoptic_api has normalised the parameters every key is in lower
\* case, and the token is the one the caller gave under any letter case of
\* the key, the configured default only when the caller gave none.
C9_CallerTokenIsSent ==
    (apc \in {"normalized", "responded", "returned"} \/ error.stage = "remote") =>
        /\ \A i \in 1..Len(params) : params[i].k = Lower(params[i].k)
        /\ HasKey(params, K_TOKEN)
        /\ IF CallerTokens = {} THEN Get(params, K_TOKEN) = DefaultToken
           ELSE Get(params, K_TOKEN) \in CallerTokens

\* the elements of a list, in order, with a comma between two neighbours
RECURSIVE CommaSeparated(_, _)
CommaSeparated(done, rest) ==
    IF Len(rest) = 0 THEN done
    ELSE CommaSeparated(IF Len(done) = 0 THEN Head(rest)
                        ELSE done \o <<",">> \o Head(rest), Tail(rest))

\* the first eight digits of an instant: YYYYMMDD
DayOf(x) == [i \in 1..8 |-> x.v[i]]

\* what the request is to carry for an argument the caller gave as a list or
\* under the name obrange
SentFor(arg) ==
    IF Lower(arg.k) = K_OBRANGE
    THEN IF arg.val.t = "str" THEN arg.val
         ELSE IF arg.val.t = "list"
         THEN Str(CommaSeparated(<<>>, [j \in 1..Len(arg.val.v) |-> DayOf(arg.val.v[j])]))
         ELSE Str(DayOf(arg.val))
    ELSE Str(CommaSeparated(<<>>, [j \in 1..Len(arg.val.v) |-> arg.val.v[j].v]))

Sent == apc \in {"normalized", "responded", "returned"} \/ error.stage = "remote"

\* C11: once synoptic_api has normalised the parameters, every list-valued
\* parameter other than obrange is the comma-joined string of its elements in
\* order, and obrange is each instant as YYYYMMDD joined with a comma for a
\* single instant or a list of instants, and unchanged for a string.
C11_ListsJoinedObrangeAsDays ==
    Sent =>
        \A i \in 1..Len(callParams) :
            (callParams[i].val.t = "list" \/ Lower(callParams[i].k) = K_OBRANGE) =>
                Get(params, Lower(callParams[i].k)) = SentFor(callParams[i])

C11_Witness ==
    /\ apc = "responded"
    /\ HasKey(callParams, K_STID) /\ Get(callParams, K_STID).t = "list"
    /\ HasKey(callParams, K_OBRANGE) /\ Get(callParams, K_OBRANGE).t = "list"
    /\ Get(response.url.query, K_OBRANGE) = DayRange

\* the instant a value stands for, as twelve digits: a datetime object is its
\* own digits; a compact numeric string is its first eight digits as the date
\* and the digits after them as hhmm, minutes and hours absent being zero
Zeros(n) == [i \in 1..n |-> "0"]

TwelveDigits(val) ==
    IF val.t = "datetime" THEN val.v
    ELSE [i \in 1..8 |-> val.v[i]] \o [i \in 1..(Len(val.v) - 8) |-> val.v[8 + i]]
         \o Zeros(12 - Len(val.v))

Compact(val) ==
    val.t = "str" /\ Len(val.v) \in {8, 10, 12} /\ \A i \in 1..Len(val.v) : val.v[i] \in Digits

\* normalising once more the value that was sent under an instant key
Renormalized(key, val) ==
    InstantStep(NormState(<<[k |-> key, val |-> val]>>, <<>>, "none"), key)

\* C12: under start, end, expire and attime every value that parses (a
\* datetime object, or a compact numeric string of eight, ten or twelve
\* digits read as the date in the first eight digits and the time in the
\* rest) is sent as the twelve characters YYYYMMDDhhmm; a string of twelve
\* digits is sent as it was given, and normalising the sent value again
\* yields the same value.
C12_InstantIsTwelveDigits ==
    Sent =>
        \A i \in 1..Len(callParams) :
            LET arg  == callParams[i]
                sent == Get(params, Lower(arg.k))
            IN  (Lower(arg.k) \in InstantKeys /\ (arg.val.t = "datetime" \/ Compact(arg.val))) =>
                    /\ sent = Str(TwelveDigits(arg.val))
                    /\ Len(sent.v) = 12
                    /\ (Len(arg.val.v) = 12 /\ arg.val.t = "str" => sent = arg.val)
                    /\ Renormalized(Lower(arg.k), sent).raised = "none"
                    /\ Renormalized(Lower(arg.k), sent).params[1].val = sent

C12_Witness ==
    /\ apc = "responded"
    /\ HasKey(callParams, K_START) /\ Len(Get(callParams, K_START).v) = 10
    /\ Get(response.url.query, K_START) = SubSeq(LaterInstant, 1, 10) \o <<"0","0">>
    /\ HasKey(callParams, K_END) /\ Get(params, K_END) = Get(callParams, K_END)

\* C16: a call issues the HTTP GET at most once; a call that failed (an
\* assertion before the request, or the rejection of the request by the
\* service) stays failed, issues no further GET and returns nothing.
C16_NoRetry ==
    /\ [](gets <= 1)
    /\ [](error.type # "none" => apc = "failed")
    /\ [][apc = "failed" => (apc' = "failed" /\ gets' = gets)]_vars

C16_Witness ==
    /\ apc = "failed"
    /\ error.stage = "remote"
    /\ gets = 1
    /\ fn = "stations_timeseries"

\* the stations of the response that report row label l
Reporting(l) == {k \in 1..Len(frames) : \E i \in 1..Len(frames[k].orig) : frames[k].orig[i] = l}

\* the last station of the response that reports row label l
LastReporting(l) == CHOOSE k \in Reporting(l) : \A j \in Reporting(l) : j <= k

\* C19: RENAMED of the merged snapshot table is faithful for every station:
\* it maps every original row label of every station to the row at which
\* that station's observation is found in the merged table.
C19_RenamedFaithfulForEveryStation ==
    (payloadForm = "snapshot" /\ renameFlag /\ tpc = "done") =>
        \A k \in 1..Len(frames) : \A i \in 1..Len(frames[k].orig) :
            /\ frames[k].orig[i] \in DOMAIN merged.RENAMED
            /\ AppearsAt(data[k], merged.RENAMED[frames[k].orig[i]], frames[k].cells[i])

\* C19, one entry per label: RENAMED of the merged snapshot table has an
\* entry for every original row label of every station, and the entry of a
\* label is the resolution made for the last station that reports it; it is
\* at that row that the observations of that station, and of every station
\* that resolved the label alike, are found in the merged table.
C19_RenamedOfLastReportingStation ==
    (payloadForm = "snapshot" /\ renameFlag /\ tpc = "done") =>
        /\ DOMAIN merged.RENAMED = UNION {Range(frames[k].orig) : k \in 1..Len(frames)}
        /\ \A l \in DOMAIN merged.RENAMED :
              merged.RENAMED[l] = frames[LastReporting(l)].RENAMED[l]
        /\ \A k \in 1..Len(frames) : \A i \in 1..Len(frames[k].orig) :
              frames[k].RENAMED[frames[k].orig[i]]
                    = frames[LastReporting(frames[k].orig[i])].RENAMED[frames[k].orig[i]]
                => AppearsAt(data[k], merged.RENAMED[frames[k].orig[i]], frames[k].cells[i])

\* C19 witness: two stations report the same label and resolve it
\* differently, and the merged table was returned
C19_Witness ==
    /\ payloadForm = "snapshot" /\ renameFlag /\ tpc = "done"
    /\ \E l \in DOMAIN merged.RENAMED : \E k \in Reporting(l) :
          /\ k < LastReporting(l)
          /\ frames[k].RENAMED[l] # frames[LastReporting(l)].RENAMED[l]
          /\ merged.RENAMED[l] = frames[LastReporting(l)].RENAMED[l]

====
